---------------------------- MODULE Spec2Model ----------------------------
(***************************************************************************)
(* A model of goarfs: the AR archive parser (ARFS.parse) and the fs.FS     *)
(* facade built on it (Open, ReadFile, Stat, ReadDir, Glob, Close) together *)
(* with the io.SectionReader windows the entries carry.                     *)
(*                                                                         *)
(* Bytes are integers 0..255 and strings are sequences of bytes, so that   *)
(* trimming, number parsing, path cleaning and glob matching are computed  *)
(* the way the code computes them.                                         *)
(***************************************************************************)
EXTENDS Integers, Sequences, FiniteSets, TLC

VARIABLES
    stream,       \* the bytes of the underlying source (never written)
    kind,         \* the source: "file" (FromFile), "readerat", "seeker"
    pc,           \* "new", "scan" (inside parse's loop), "ready", "failed"
    cursor,       \* the source's own read/seek position
    srcClosed,    \* the source has been closed
    err,          \* the error construction returned (<<>> is nil)
    fileHeaders,  \* ARFS.fileHeaders: name -> fileHeader
    hdrpos,       \* where parse read its last header from; -1 before any
    last,         \* parse's locals for the header decoded last
    scanned,      \* the names parse has inserted, one per header, in order
    handles,      \* the fs.File values Open has returned, in order
    ret,          \* what the last facade call returned
    closedAt      \* -1, or how many handles were open when Close was called

vars == <<stream, kind, pc, cursor, srcClosed, err, fileHeaders, hdrpos,
          last, scanned, handles, ret, closedAt>>

-----------------------------------------------------------------------------
(* Bounds of the model *)

MaxMembers == 2
MaxHandles == 2
MaxRead == 2

-----------------------------------------------------------------------------
(* Program constants *)

headerSize == 60
goodSignature == <<33, 60, 97, 114, 99, 104, 62, 10>>     \* "!<arch>\n"
headerTerminator == <<96, 10>>

nil == <<>>
ErrTooShort == <<"ErrTooShort">>
ErrBadSignature == <<"ErrBadSignature">>
ErrBadFileHeader == <<"ErrBadFileHeader">>
ErrNotExist == <<"fs.ErrNotExist">>
ErrBadPattern == <<"filepath.ErrBadPattern">>
EOF == <<"io.EOF">>
ErrClosed == <<"os.ErrClosed">>
ErrInvalid == <<"invalid argument">>
ErrSyntax == <<"strconv.ErrSyntax">>
ErrRange == <<"strconv.ErrRange">>
ErrInsufficient == <<"insufficient data for extended filename">>
ErrOffset == <<"SectionReader.Seek: negative position">>

\* errors.Join(a, b) and errors.Is(e, target)
errorsJoin(a, b) == a \o b
errorsIs(e, target) == \E i \in 1..Len(e) : <<e[i]>> = target

-----------------------------------------------------------------------------
(* Byte-string helpers *)

Min(a, b) == IF a < b THEN a ELSE b
Max(a, b) == IF a > b THEN a ELSE b

Take(s, n) == SubSeq(s, 1, Min(n, Len(s)))
Drop(s, n) == SubSeq(s, n + 1, Len(s))

HasPrefix(s, p) == Len(s) >= Len(p) /\ SubSeq(s, 1, Len(p)) = p
TrimPrefix(s, p) == IF HasPrefix(s, p) THEN Drop(s, Len(p)) ELSE s

\* unicode.IsSpace on single bytes: \t \n \v \f \r and space
asciiSpace == {9, 10, 11, 12, 13, 32}

RECURSIVE TrimLeftSet(_, _)
TrimLeftSet(s, cut) ==
    IF s # <<>> /\ Head(s) \in cut THEN TrimLeftSet(Tail(s), cut) ELSE s

RECURSIVE TrimRightSet(_, _)
TrimRightSet(s, cut) ==
    IF s # <<>> /\ s[Len(s)] \in cut
    THEN TrimRightSet(SubSeq(s, 1, Len(s) - 1), cut)
    ELSE s

TrimSpace(s) == TrimRightSet(TrimLeftSet(s, asciiSpace), asciiSpace)
TrimRight(s, cut) == TrimRightSet(s, cut)

\* the largest int32
MaxInt32 == 2147483647

\* strconv.ParseUint's digit value of a byte; 99 for a byte that is no digit
DigitVal(c) ==
    IF c >= 48 /\ c <= 57 THEN c - 48
    ELSE IF c >= 97 /\ c <= 122 THEN c - 97 + 10
    ELSE IF c >= 65 /\ c <= 90 THEN c - 65 + 10
    ELSE 99

\* ParseUint's loop over the digits.  acc is the value so far, or -1 when the
\* value is exactly 2^31, or -2 when it is larger (a range error either way
\* for a non-negative int32).  Returns -3 on a syntax error.
RECURSIVE ParseDigits(_, _, _)
ParseDigits(s, base, acc) ==
    IF s = <<>> THEN acc
    ELSE LET d == DigitVal(Head(s))
             q == (MaxInt32 - d) \div base
         IN  IF d >= base THEN -3
             ELSE IF acc < 0 THEN ParseDigits(Tail(s), base, -2)
             ELSE IF acc > q
                  THEN IF acc = q + 1 /\ (MaxInt32 - d) % base = base - 1
                       THEN ParseDigits(Tail(s), base, -1)
                       ELSE ParseDigits(Tail(s), base, -2)
             ELSE ParseDigits(Tail(s), base, acc * base + d)

\* strconv.ParseInt(s, base, 32): [err, val]
ParseInt(s, base) ==
    IF s = <<>> THEN [err |-> ErrSyntax, val |-> 0]
    ELSE LET neg == Head(s) = 45
             digits == IF Head(s) \in {43, 45} THEN Tail(s) ELSE s
             un == IF digits = <<>> THEN -3 ELSE ParseDigits(digits, base, 0)
         IN  IF un = -3 THEN [err |-> ErrSyntax, val |-> 0]
             ELSE IF un = -2 \/ (un = -1 /\ ~neg)
                  THEN [err |-> ErrRange, val |-> 0]
             ELSE IF un = -1 THEN [err |-> nil, val |-> (-MaxInt32) - 1]
             ELSE [err |-> nil, val |-> IF neg THEN -un ELSE un]

\* uint32(v) of an int64 that fits an int32, as two 16-bit halves
Uint32(v) ==
    IF v >= 0 THEN [hi |-> v \div 65536, lo |-> v % 65536]
    ELSE LET w == (v + MaxInt32) + 1
         IN  [hi |-> 32768 + (w \div 65536), lo |-> w % 65536]

-----------------------------------------------------------------------------
(* The underlying byte source: an *os.File ("file": Read, Seek, ReadAt and   *)
(* Close), a source with ReadAt and no Close ("readerat", such as a          *)
(* bytes.Reader), or a bare io.ReadSeeker ("seeker").                        *)

Kinds == {"file", "readerat", "seeker"}
hasReaderAt(k) == k \in {"file", "readerat"}
hasCloser(k) == k = "file"

\* Read(p) with len(p) = n at the source's cursor
rawRead(cur, closed, n) ==
    IF closed THEN [n |-> 0, data |-> <<>>, err |-> ErrClosed, cursor |-> cur]
    ELSE LET k == Min(n, Max(0, Len(stream) - cur))
         IN  [n |-> k,
              data |-> SubSeq(stream, cur + 1, cur + k),
              err |-> IF k = 0 /\ n > 0 THEN EOF ELSE nil,
              cursor |-> cur + k]

\* Seek(off, whence) on the source: [pos, err, cursor]
rawSeek(cur, closed, off, whence) ==
    LET new == IF whence = "SeekStart" THEN off ELSE cur + off
    IN  IF closed THEN [pos |-> 0, err |-> ErrClosed, cursor |-> cur]
        ELSE IF new < 0 THEN [pos |-> 0, err |-> ErrInvalid, cursor |-> cur]
        ELSE [pos |-> new, err |-> nil, cursor |-> new]

\* the source's own ReadAt (pread): the cursor is not touched
nativeReadAt(cur, closed, n, off) ==
    IF closed /\ n > 0
    THEN [n |-> 0, data |-> <<>>, err |-> ErrClosed, cursor |-> cur]
    ELSE LET k == Min(n, Max(0, Len(stream) - off))
         IN  [n |-> k,
              data |-> SubSeq(stream, off + 1, off + k),
              err |-> IF k < n THEN EOF ELSE nil,
              cursor |-> cur]

\* arfsReader.ReadAt
arfsReaderReadAt(k, cur, closed, n, off) ==
    IF hasReaderAt(k) THEN nativeReadAt(cur, closed, n, off)
    ELSE LET sk == rawSeek(cur, closed, off, "SeekStart")
         IN  IF sk.err # nil
             THEN [n |-> 0, data |-> <<>>, err |-> sk.err, cursor |-> sk.cursor]
             ELSE rawRead(sk.cursor, closed, n)

-----------------------------------------------------------------------------
(* io.SectionReader: [base, off, limit] over the arfsReader *)

NewSectionReader(off, n) == [base |-> off, off |-> off, limit |-> off + n]

\* SectionReader.Read: [n, data, err, cursor, sr]
srRead(sr, k, cur, closed, n) ==
    IF sr.off >= sr.limit
    THEN [n |-> 0, data |-> <<>>, err |-> EOF, cursor |-> cur, sr |-> sr]
    ELSE LET m == Min(n, sr.limit - sr.off)
             r == arfsReaderReadAt(k, cur, closed, m, sr.off)
         IN  [n |-> r.n, data |-> r.data, err |-> r.err, cursor |-> r.cursor,
              sr |-> [sr EXCEPT !.off = sr.off + r.n]]

\* SectionReader.ReadAt
srReadAt(sr, k, cur, closed, n, off) ==
    IF off < 0 \/ off >= sr.limit - sr.base
    THEN [n |-> 0, data |-> <<>>, err |-> EOF, cursor |-> cur, sr |-> sr]
    ELSE LET abs == off + sr.base
             max == sr.limit - abs
         IN  IF n > max
             THEN LET r == arfsReaderReadAt(k, cur, closed, max, abs)
                  IN  [n |-> r.n, data |-> r.data,
                       err |-> IF r.err = nil THEN EOF ELSE r.err,
                       cursor |-> r.cursor, sr |-> sr]
             ELSE LET r == arfsReaderReadAt(k, cur, closed, n, abs)
                  IN  [n |-> r.n, data |-> r.data, err |-> r.err,
                       cursor |-> r.cursor, sr |-> sr]

\* SectionReader.Seek: [pos, err, sr]
srSeek(sr, offset, whence) ==
    LET abs == CASE whence = "SeekStart" -> offset + sr.base
                 [] whence = "SeekCurrent" -> offset + sr.off
                 [] whence = "SeekEnd" -> offset + sr.limit
    IN  IF abs < sr.base THEN [pos |-> 0, err |-> ErrOffset, sr |-> sr]
        ELSE [pos |-> abs - sr.base, err |-> nil,
              sr |-> [sr EXCEPT !.off = abs]]


-----------------------------------------------------------------------------
(* ARFS.parse *)

extendedPrefix == <<35, 49, 47>>          \* "#1/"
nulCutset == {0}                          \* "\x00"

NoLast == [hdrpos |-> 0, offset |-> 0, declared |-> 0, nextPos |-> 0,
           extended |-> FALSE, length |-> 0, filename |-> <<>>, size |-> 0]

\* parse up to the signature check (the Seek to 0, the 8-byte Read)
parseSignature(cur, closed) ==
    LET sk == rawSeek(cur, closed, 0, "SeekStart")
        rd == rawRead(sk.cursor, closed, Len(goodSignature))
    IN  IF sk.err # nil THEN [err |-> sk.err, cursor |-> sk.cursor]
        ELSE IF rd.err # nil THEN [err |-> rd.err, cursor |-> rd.cursor]
        ELSE IF rd.n # Len(goodSignature)
             THEN [err |-> ErrTooShort, cursor |-> rd.cursor]
        ELSE IF rd.data # goodSignature
             THEN [err |-> ErrBadSignature, cursor |-> rd.cursor]
        ELSE [err |-> nil, cursor |-> rd.cursor]

\* a terminator check that compares the first of the two bytes only
terminatorFirstByte(h) == h[59] = headerTerminator[1]

\* the terminator check of a header
terminatorOK(h) == SubSeq(h, 59, 60) = headerTerminator

\* the five numeric fields of a header, parsed in the order of the code:
\* the first error, joined with ErrBadFileHeader, or nil
numericErr(h) ==
    LET mod == ParseInt(TrimSpace(SubSeq(h, 17, 28)), 10)
        own == ParseInt(TrimSpace(SubSeq(h, 29, 34)), 10)
        grp == ParseInt(TrimSpace(SubSeq(h, 35, 40)), 10)
        mde == ParseInt(TrimSpace(SubSeq(h, 41, 48)), 8)
        siz == ParseInt(TrimSpace(SubSeq(h, 49, 58)), 10)
    IN  IF mod.err # nil THEN errorsJoin(ErrBadFileHeader, mod.err)
        ELSE IF own.err # nil THEN errorsJoin(ErrBadFileHeader, own.err)
        ELSE IF grp.err # nil THEN errorsJoin(ErrBadFileHeader, grp.err)
        ELSE IF mde.err # nil THEN errorsJoin(ErrBadFileHeader, mde.err)
        ELSE IF siz.err # nil THEN errorsJoin(ErrBadFileHeader, siz.err)
        ELSE nil

\* the position parse seeks to, relative to the data start, after a member
\* of declared size `size`: size + size&1
nextPosOf(size) == size + (size % 2)

\* the extended-name step: [status, err, cursor, filename, size, sr, length]
resolveExtended(k, cur, filename, offset, size) ==
    LET sr0 == NewSectionReader(offset, size)
        plain == [status |-> "ok", err |-> nil, cursor |-> cur,
                  filename |-> filename, size |-> size, sr |-> sr0,
                  length |-> 0]
        bad(st, e, c) == [plain EXCEPT !.status = st, !.err = e, !.cursor = c]
    IN  IF ~HasPrefix(filename, extendedPrefix) THEN plain
        ELSE LET len == ParseInt(TrimPrefix(filename, extendedPrefix), 10)
             IN  IF len.err # nil THEN bad("fail", len.err, cur)
                 ELSE IF len.val < 0 THEN bad("panic", nil, cur)
                 ELSE LET rd == srRead(sr0, k, cur, FALSE, len.val)
                      IN  IF rd.err # nil THEN bad("fail", rd.err, rd.cursor)
                          ELSE IF rd.n # len.val
                               THEN bad("fail", ErrInsufficient, rd.cursor)
                          ELSE [status |-> "ok", err |-> nil,
                                cursor |-> rd.cursor,
                                filename |-> TrimRight(rd.data, nulCutset),
                                size |-> size - len.val,
                                sr |-> NewSectionReader(offset + len.val,
                                                        size - len.val),
                                length |-> len.val]

\* the fileHeader parse stores
mkFileHeader(h, x, offset) ==
    [name |-> x.filename,
     modification |-> ParseInt(TrimSpace(SubSeq(h, 17, 28)), 10).val,
     owner |-> Uint32(ParseInt(TrimSpace(SubSeq(h, 29, 34)), 10).val),
     group |-> Uint32(ParseInt(TrimSpace(SubSeq(h, 35, 40)), 10).val),
     mode |-> Uint32(ParseInt(TrimSpace(SubSeq(h, 41, 48)), 8).val),
     size |-> Uint32(x.size),
     offset |-> offset,
     sectionReader |-> x.sr]

\* an insertion that keeps no other key
mapPutAlone(m, key, val) == [n \in {key} |-> val]

mapPut(m, key, val) ==
    [n \in (DOMAIN m) \cup {key} |-> IF n = key THEN val ELSE m[n]]

\* one turn of parse's loop: [status, err, cursor, fileHeaders, last]
\* status is "next" (loop again), "done" (return nil), "fail" (return err)
\* or "panic" (make([]byte, length) with a negative length)
parseHeader(k, cur, fh) ==
    LET out(st, e, c) == [status |-> st, err |-> e, cursor |-> c,
                          fileHeaders |-> fh, last |-> NoLast]
        \* from the insertion on, x being what the extended-name step gave
        store(h, filename, size, offset, x) ==
            LET sk == rawSeek(x.cursor, FALSE, nextPosOf(size), "SeekCurrent")
            IN  IF x.status # "ok" THEN out(x.status, x.err, x.cursor)
                ELSE [status |-> IF sk.err # nil THEN "fail" ELSE "next",
                      err |-> sk.err, cursor |-> sk.cursor,
                      fileHeaders |->
                          mapPut(fh, x.filename, mkFileHeader(h, x, offset)),
                      last |-> [hdrpos |-> cur, offset |-> offset,
                                declared |-> size,
                                nextPos |-> nextPosOf(size),
                                extended |->
                                    HasPrefix(filename, extendedPrefix),
                                length |-> x.length, filename |-> x.filename,
                                size |-> x.size]]
        \* from the Seek that gives the data offset on
        member(h, c, filename, size, offset) ==
            store(h, filename, size, offset,
                  resolveExtended(k, c, filename, offset, size))
        \* from the numeric fields on, e being their error
        fields(h, c, e) ==
            IF e # nil THEN out("fail", e, c)
            ELSE member(h, c, TrimSpace(SubSeq(h, 1, 16)),
                        ParseInt(TrimSpace(SubSeq(h, 49, 58)), 10).val,
                        rawSeek(c, FALSE, 0, "SeekCurrent").pos)
        \* from the result rd of the header's Read on
        header(rd) ==
            IF rd.err # nil
            THEN IF errorsIs(rd.err, EOF) THEN out("done", nil, rd.cursor)
                 ELSE out("fail", rd.err, rd.cursor)
            ELSE IF rd.n # headerSize
                 THEN out("fail", ErrTooShort, rd.cursor)
            ELSE IF ~terminatorOK(rd.data)
                 THEN out("fail", ErrBadFileHeader, rd.cursor)
            ELSE fields(rd.data, rd.cursor, numericErr(rd.data))
    IN  header(rawRead(cur, FALSE, headerSize))

-----------------------------------------------------------------------------
(* path.Clean and ARFS.getHeader *)

Slash == 47
Dot == 46

\* the elements of p between separators
RECURSIVE Split(_, _)
Split(p, cur) ==
    IF p = <<>> THEN <<cur>>
    ELSE IF Head(p) = Slash THEN <<cur>> \o Split(Tail(p), <<>>)
    ELSE Split(Tail(p), Append(cur, Head(p)))

RECURSIVE Join(_)
Join(elems) ==
    IF elems = <<>> THEN <<>>
    ELSE IF Len(elems) = 1 THEN elems[1]
    ELSE elems[1] \o <<Slash>> \o Join(Tail(elems))

\* Clean's loop: empty and "." elements are dropped, ".." backs up over the
\* last kept element, or is kept at the front of a path that is not rooted
RECURSIVE cleanElems(_, _, _)
cleanElems(elems, out, rooted) ==
    IF elems = <<>> THEN out
    ELSE LET e == Head(elems)
             rest == Tail(elems)
         IN  IF e = <<>> \/ e = <<Dot>> THEN cleanElems(rest, out, rooted)
             ELSE IF e = <<Dot, Dot>>
                  THEN IF out # <<>> /\ out[Len(out)] # <<Dot, Dot>>
                       THEN cleanElems(rest, SubSeq(out, 1, Len(out) - 1), rooted)
                       ELSE IF ~rooted
                            THEN cleanElems(rest, Append(out, e), rooted)
                            ELSE cleanElems(rest, out, rooted)
             ELSE cleanElems(rest, Append(out, e), rooted)

\* path.Clean
Clean(p) ==
    IF p = <<>> THEN <<Dot>>
    ELSE LET rooted == Head(p) = Slash
             body == Join(cleanElems(Split(p, <<>>), <<>>, rooted))
         IN  IF rooted THEN <<Slash>> \o body
             ELSE IF body = <<>> THEN <<Dot>>
             ELSE body

\* the name getHeader looks up
normalize(name) ==
    TrimPrefix(TrimPrefix(Clean(name), <<Slash>>), <<Dot, Slash>>)

\* ARFS.getHeader: [ok, key]
getHeader(fh, name) ==
    [ok |-> normalize(name) \in DOMAIN fh, key |-> normalize(name)]

-----------------------------------------------------------------------------
(* filepath.Match, on a system whose separator is "/" *)

\* scanChunk: [star, chunk, rest]
RECURSIVE skipStars(_)
skipStars(p) == IF p # <<>> /\ Head(p) = 42 THEN skipStars(Tail(p)) ELSE p

RECURSIVE chunkEnd(_, _, _)
chunkEnd(p, i, inrange) ==
    IF i > Len(p) THEN i
    ELSE IF p[i] = 92 THEN chunkEnd(p, IF i + 1 <= Len(p) THEN i + 2 ELSE i + 1, inrange)
    ELSE IF p[i] = 91 THEN chunkEnd(p, i + 1, TRUE)
    ELSE IF p[i] = 93 THEN chunkEnd(p, i + 1, FALSE)
    ELSE IF p[i] = 42 /\ ~inrange THEN i
    ELSE chunkEnd(p, i + 1, inrange)

scanChunk(pattern) ==
    LET p == skipStars(pattern)
        i == chunkEnd(p, 1, FALSE)
    IN  [star |-> p # pattern, chunk |-> SubSeq(p, 1, i - 1), rest |-> Drop(p, i - 1)]

\* getEsc: [err, r, chunk]
getEsc(chunk) ==
    IF chunk = <<>> \/ Head(chunk) = 45 \/ Head(chunk) = 93
    THEN [err |-> ErrBadPattern, r |-> 0, chunk |-> chunk]
    ELSE LET c == IF Head(chunk) = 92 THEN Tail(chunk) ELSE chunk
         IN  IF c = <<>> THEN [err |-> ErrBadPattern, r |-> 0, chunk |-> c]
             ELSE [err |-> IF Tail(c) = <<>> THEN ErrBadPattern ELSE nil,
                   r |-> Head(c), chunk |-> Tail(c)]

\* the loop over the ranges of a character class: [err, chunk, match]
RECURSIVE classRanges(_, _, _, _)
classRanges(chunk, r, match, nrange) ==
    IF chunk # <<>> /\ Head(chunk) = 93 /\ nrange > 0
    THEN [err |-> nil, chunk |-> Tail(chunk), match |-> match]
    ELSE LET lo == getEsc(chunk)
         IN  IF lo.err # nil THEN [err |-> lo.err, chunk |-> <<>>, match |-> FALSE]
             ELSE IF Head(lo.chunk) = 45
                  THEN LET hi == getEsc(Tail(lo.chunk))
                       IN  IF hi.err # nil
                           THEN [err |-> hi.err, chunk |-> <<>>, match |-> FALSE]
                           ELSE classRanges(hi.chunk, r,
                                            match \/ (lo.r <= r /\ r <= hi.r),
                                            nrange + 1)
                  ELSE classRanges(lo.chunk, r, match \/ lo.r = r, nrange + 1)

\* matchChunk: [rest, ok, err]
RECURSIVE matchChunkLoop(_, _, _)
matchChunkLoop(chunk, s, wasFailed) ==
    IF chunk = <<>>
    THEN IF wasFailed THEN [rest |-> <<>>, ok |-> FALSE, err |-> nil]
         ELSE [rest |-> s, ok |-> TRUE, err |-> nil]
    ELSE LET failed == wasFailed \/ s = <<>>
             c == Head(chunk)
         IN  IF c = 91
             THEN LET r == IF failed THEN 0 ELSE Head(s)
                      s1 == IF failed THEN s ELSE Tail(s)
                      c1 == Tail(chunk)
                      negated == c1 # <<>> /\ Head(c1) = 94
                      c2 == IF negated THEN Tail(c1) ELSE c1
                      cl == classRanges(c2, r, FALSE, 0)
                  IN  IF cl.err # nil
                      THEN [rest |-> <<>>, ok |-> FALSE, err |-> cl.err]
                      ELSE matchChunkLoop(cl.chunk, s1,
                                          failed \/ (cl.match = negated))
             ELSE IF c = 63
             THEN matchChunkLoop(Tail(chunk),
                                 IF failed THEN s ELSE Tail(s),
                                 failed \/ Head(s) = Slash)
             ELSE LET lit == IF c = 92 THEN Tail(chunk) ELSE chunk
                  IN  IF lit = <<>>
                      THEN [rest |-> <<>>, ok |-> FALSE, err |-> ErrBadPattern]
                      ELSE matchChunkLoop(Tail(lit),
                                          IF failed THEN s ELSE Tail(s),
                                          failed \/ Head(lit) # Head(s))

matchChunk(chunk, s) == matchChunkLoop(chunk, s, FALSE)

\* the check of the rest of the pattern once the match has failed
RECURSIVE restErr(_)
restErr(pattern) ==
    IF pattern = <<>> THEN nil
    ELSE LET sc == scanChunk(pattern)
             m == matchChunk(sc.chunk, <<>>)
         IN  IF m.err # nil THEN m.err ELSE restErr(sc.rest)

RECURSIVE Match(_, _)

\* the loop that lets a star swallow i+1 bytes, none of them a separator
RECURSIVE starSkip(_, _, _, _)
starSkip(chunk, rest, name, i) ==
    IF ~(i < Len(name) /\ name[i + 1] # Slash)
    THEN [matched |-> FALSE, err |-> restErr(rest)]
    ELSE LET m == matchChunk(chunk, Drop(name, i + 1))
         IN  IF m.ok
             THEN IF rest = <<>> /\ m.rest # <<>>
                  THEN starSkip(chunk, rest, name, i + 1)
                  ELSE Match(rest, m.rest)
             ELSE IF m.err # nil THEN [matched |-> FALSE, err |-> m.err]
             ELSE starSkip(chunk, rest, name, i + 1)

\* filepath.Match(pattern, name): [matched, err]
Match(pattern, name) ==
    IF pattern = <<>> THEN [matched |-> name = <<>>, err |-> nil]
    ELSE LET sc == scanChunk(pattern)
             m == matchChunk(sc.chunk, name)
         IN  IF sc.star /\ sc.chunk = <<>>
             THEN [matched |-> \A i \in 1..Len(name) : name[i] # Slash,
                   err |-> nil]
             ELSE IF m.ok /\ (m.rest = <<>> \/ sc.rest # <<>>)
                  THEN Match(sc.rest, m.rest)
             ELSE IF m.err # nil THEN [matched |-> FALSE, err |-> m.err]
             ELSE IF sc.star THEN starSkip(sc.chunk, sc.rest, name, 0)
             ELSE [matched |-> FALSE, err |-> restErr(sc.rest)]

-----------------------------------------------------------------------------

(* The archives the model is run on: the container layout written out byte  *)
(* by byte from member descriptions, whole and cut short.                   *)

PadRight(s, w) == s \o [i \in 1..(w - Len(s)) |-> 32]

\* the decimal digits of a small number
Decimal(n) == IF n < 10 THEN <<48 + n>> ELSE <<48 + (n \div 10), 48 + (n % 10)>>

EncodeHeader(m) ==
    PadRight(m.name, 16) \o PadRight(m.mtime, 12) \o PadRight(m.owner, 6)
      \o PadRight(m.group, 6) \o PadRight(m.mode, 8) \o PadRight(m.size, 10)
      \o m.term

EncodeMember(m) ==
    EncodeHeader(m) \o m.data \o (IF Len(m.data) % 2 = 1 THEN <<10>> ELSE <<>>)

RECURSIVE EncodeMembers(_)
EncodeMembers(ms) ==
    IF ms = <<>> THEN <<>> ELSE EncodeMember(Head(ms)) \o EncodeMembers(Tail(ms))

EncodeArchive(ms) == goodSignature \o EncodeMembers(ms)

\* a well-formed member
Member(name, data) ==
    [name |-> name, mtime |-> <<49, 50>>, owner |-> <<53>>, group |-> <<54>>,
     mode |-> <<54, 52, 52>>, size |-> Decimal(Len(data)),
     term |-> headerTerminator, data |-> data]

GoodMembers ==
    { Member(<<97>>, <<120>>),                         \* "a": "x"
      Member(<<97, 47>>, <<114>>),                     \* "a/": "r"
      Member(<<35, 49, 47, 50>>, <<98, 0, 115, 116>>) } \* "#1/2": "b\0" "st"

BadMembers ==
    LET a == Member(<<97>>, <<>>) IN
    { [a EXCEPT !.term = <<96, 96>>],
      [a EXCEPT !.mtime = <<>>],                       \* blank field
      [a EXCEPT !.owner = <<120>>],                    \* "x"
      [a EXCEPT !.group = <<49, 32, 49>>],             \* "1 1"
      [a EXCEPT !.mode = <<56>>],                      \* "8" is not octal
      [a EXCEPT !.size = <<49, 46, 48>>],              \* "1.0"
      Member(<<35, 49, 47, 120>>, <<113>>),            \* "#1/x"
      Member(<<35, 49, 47, 48>>, <<>>),                \* "#1/0", no data
      Member(<<35, 49, 47, 51>>, <<97, 98>>) }         \* "#1/3", 2 bytes

\* headers whose size or #1/N length is signed or out of the int32 range
RangeMembers ==
    LET a == Member(<<97>>, <<>>) IN
    { [a EXCEPT !.size = <<45, 54, 48>>],              \* "-60"
      [a EXCEPT !.size = <<57, 57, 57, 57, 57, 57, 57, 57, 57, 57>>],
      Member(<<35, 49, 47, 45, 49>>, <<113>>) }        \* "#1/-1"

Members == GoodMembers \cup BadMembers \cup RangeMembers

MemberSeqs == UNION { [1..n -> Members] : n \in 0..MaxMembers }

\* where the cut streams end: inside the signature, inside the first header,
\* inside the first member's data
CutLens ==
    { 0, Len(goodSignature) - 1, Len(goodSignature) + 1,
      Len(goodSignature) + headerSize - 1,
      Len(goodSignature) + headerSize + 1 }

Streams ==
    LET whole == { EncodeArchive(ms) : ms \in MemberSeqs }
    IN  whole \cup { Take(s, k) : s \in whole, k \in CutLens }
              \cup { <<33, 60, 97, 114, 99, 104, 62, 32>> \o EncodeMembers(<<>>) }

-----------------------------------------------------------------------------
(* State *)

NoRet == [op |-> "none"]
emptyMap == [n \in {} |-> 0]

Init ==
    /\ stream \in Streams
    /\ kind \in Kinds
    /\ pc = "new"
    /\ cursor = 0
    /\ srcClosed = FALSE
    /\ err = nil
    /\ fileHeaders = emptyMap
    /\ hdrpos = -1
    /\ last = NoLast
    /\ scanned = <<>>
    /\ handles = <<>>
    /\ ret = NoRet
    /\ closedAt = -1

\* what the constructor does with parse's result: FromFile closes the file
\* on an error, and both return nil for the archive
ctorFailed(e, c) ==
    /\ pc' = "failed"
    /\ err' = e
    /\ srcClosed' = (c = "FromFile")

\* the constructor up to the end of parse's signature check
construct(c) ==
    LET sg == parseSignature(cursor, srcClosed) IN
    /\ pc = "new"
    /\ cursor' = sg.cursor
    /\ fileHeaders' = emptyMap
    /\ IF sg.err # nil THEN ctorFailed(sg.err, c)
       ELSE pc' = "scan" /\ err' = nil /\ UNCHANGED srcClosed
    /\ UNCHANGED <<stream, kind, hdrpos, last, scanned, handles, ret, closedAt>>

\* FromFile: the source is the *os.File it opened
FromFile == kind = "file" /\ construct("FromFile")

\* FromInterface: the source is the caller's io.ReadSeeker
FromInterface == kind # "file" /\ construct("FromInterface")

ctorOf(k) == IF k = "file" THEN "FromFile" ELSE "FromInterface"

\* one turn of parse's loop, and the constructor's return when parse returns
\* (a scan that does not advance is followed for MaxMembers + 1 headers)
ParseHeader ==
    /\ pc = "scan"
    /\ Len(scanned) <= MaxMembers
    /\ \E r \in { parseHeader(kind, cursor, fileHeaders) } :
           /\ cursor' = r.cursor
           /\ hdrpos' = cursor
           /\ fileHeaders' = r.fileHeaders
           /\ last' = IF r.status = "next" \/ r.last # NoLast THEN r.last ELSE last
           /\ scanned' = IF r.last # NoLast THEN Append(scanned, r.last.filename)
                          ELSE scanned
           /\ IF r.status = "fail" THEN ctorFailed(r.err, ctorOf(kind))
              ELSE /\ pc' = CASE r.status = "next" -> "scan"
                              [] r.status = "done" -> "ready"
                              [] r.status = "panic" -> "panic"
                   /\ UNCHANGED <<err, srcClosed>>
           /\ UNCHANGED <<stream, kind, handles, ret, closedAt>>

-----------------------------------------------------------------------------
(* The facade.  An fs.File is the *fileHeader the table holds, so a handle   *)
(* is the table key of its entry, and its position is the entry's            *)
(* sectionReader's.                                                          *)

\* the names asked for: each name of the table as it is, rooted, and behind
\* "./", and the name "z", which no archive holds
Requests ==
    LET stored == DOMAIN fileHeaders
    IN  stored \cup { <<Slash>> \o x : x \in stored }
               \cup { <<Dot, Slash>> \o x : x \in stored }
               \cup { <<122>> }

\* "/", "." and "a"
DirRequests == { <<Slash>>, <<Dot>>, <<97>> }

\* "*", "[ab]", "a*", and the malformed "[" and "c["
Patterns == { <<42>>, <<91, 97, 98, 93>>, <<97, 42>>, <<91>>, <<99, 91>> }

\* the (offset, whence) pairs Seek is called with
SeekArgs == { <<0, "SeekStart">>, <<-1, "SeekStart">>,
              <<1, "SeekCurrent">>, <<-1, "SeekEnd">> }

\* the orders a range over the map may take
Orders(m) ==
    { o \in [1..Cardinality(DOMAIN m) -> DOMAIN m] :
        \A i, j \in DOMAIN o : i # j => o[i] # o[j] }

\* fs.FileInfo of an entry: Name() and Size()
infoOf(e) == [name |-> e.name, size |-> e.size]

\* the bytes io.ReadAll asks for at a time
readAllChunk == 512

\* io.ReadAll(f): [data, err, cursor, sr]
RECURSIVE readAll(_, _, _, _, _)
readAll(sr, k, cur, isClosed, acc) ==
    LET r == srRead(sr, k, cur, isClosed, readAllChunk)
    IN  IF r.err # nil
        THEN [data |-> acc \o r.data,
              err |-> IF r.err = EOF THEN nil ELSE r.err,
              cursor |-> r.cursor, sr |-> r.sr]
        ELSE readAll(r.sr, k, r.cursor, isClosed, acc \o r.data)

setReader(fh, key, sr) == [fh EXCEPT ![key].sectionReader = sr]

\* ARFS.Open
Open(name) ==
    LET g == getHeader(fileHeaders, name) IN
    /\ pc = "ready"
    /\ IF g.ok
       THEN /\ Len(handles) < MaxHandles
            /\ handles' = Append(handles, g.key)
            /\ ret' = [op |-> "Open", arg |-> name, err |-> nil,
                       h |-> Len(handles) + 1]
       ELSE /\ handles' = handles
            /\ ret' = [op |-> "Open", arg |-> name, err |-> ErrNotExist]
    /\ UNCHANGED <<stream, kind, pc, cursor, srcClosed, err, fileHeaders,
                   hdrpos, last, scanned, closedAt>>

\* ARFS.Stat
Stat(name) ==
    LET g == getHeader(fileHeaders, name) IN
    /\ pc = "ready"
    /\ ret' = IF g.ok
              THEN [op |-> "Stat", arg |-> name, err |-> nil,
                    info |-> infoOf(fileHeaders[g.key])]
              ELSE [op |-> "Stat", arg |-> name, err |-> ErrNotExist]
    /\ UNCHANGED <<stream, kind, pc, cursor, srcClosed, err, fileHeaders,
                   hdrpos, last, scanned, handles, closedAt>>

\* ARFS.ReadFile: Open, then io.ReadAll on the entry
ReadFile(name) ==
    LET g == getHeader(fileHeaders, name) IN
    /\ pc = "ready"
    /\ IF g.ok
       THEN LET r == readAll(fileHeaders[g.key].sectionReader, kind, cursor,
                             srcClosed, <<>>)
            IN  /\ ret' = [op |-> "ReadFile", arg |-> name, err |-> r.err,
                           data |-> r.data]
                /\ fileHeaders' = setReader(fileHeaders, g.key, r.sr)
                /\ cursor' = r.cursor
       ELSE /\ ret' = [op |-> "ReadFile", arg |-> name, err |-> ErrNotExist]
            /\ UNCHANGED <<fileHeaders, cursor>>
    /\ UNCHANGED <<stream, kind, pc, srcClosed, err, hdrpos, last, scanned,
                   handles, closedAt>>

\* ARFS.ReadDir
ReadDir(name) ==
    /\ pc = "ready"
    /\ IF name # <<Slash>> /\ name # <<Dot>>
       THEN ret' = [op |-> "ReadDir", arg |-> name, err |-> ErrNotExist]
       ELSE \E o \in Orders(fileHeaders) :
                ret' = [op |-> "ReadDir", arg |-> name, err |-> nil,
                        entries |-> [i \in DOMAIN o |-> infoOf(fileHeaders[o[i]])]]
    /\ UNCHANGED <<stream, kind, pc, cursor, srcClosed, err, fileHeaders,
                   hdrpos, last, scanned, handles, closedAt>>

\* Glob's loop over the names in the order o: [names, err]
RECURSIVE globLoop(_, _, _, _)
globLoop(pattern, o, i, fileList) ==
    IF i > Len(o) THEN [names |-> fileList, err |-> nil]
    ELSE LET m == Match(pattern, o[i])
         IN  IF m.err # nil THEN [names |-> <<>>, err |-> m.err]
             ELSE globLoop(pattern, o, i + 1,
                           IF m.matched THEN Append(fileList, o[i]) ELSE fileList)

\* ARFS.Glob
Glob(pattern) ==
    /\ pc = "ready"
    /\ \E o \in Orders(fileHeaders) :
          LET g == globLoop(pattern, o, 1, <<>>)
          IN  ret' = [op |-> "Glob", arg |-> pattern, err |-> g.err,
                      names |-> g.names]
    /\ UNCHANGED <<stream, kind, pc, cursor, srcClosed, err, fileHeaders,
                   hdrpos, last, scanned, handles, closedAt>>

\* ARFS.Close: arfsReader.Close closes the source if it is an io.Closer
Close ==
    /\ pc = "ready"
    /\ closedAt' = IF closedAt < 0 THEN Len(handles) ELSE closedAt
    /\ IF hasCloser(kind)
       THEN /\ srcClosed' = TRUE
            /\ ret' = [op |-> "Close",
                       err |-> IF srcClosed THEN ErrClosed ELSE nil]
       ELSE /\ srcClosed' = srcClosed
            /\ ret' = [op |-> "Close", err |-> nil]
    /\ UNCHANGED <<stream, kind, pc, cursor, err, fileHeaders, hdrpos, last,
                   scanned, handles>>

\* fileHeader.Read, on the h-th handle, into a buffer of n bytes
Read(h, n) ==
    /\ pc = "ready"
    /\ h \in DOMAIN handles
    /\ LET r == srRead(fileHeaders[handles[h]].sectionReader, kind, cursor,
                       srcClosed, n)
       IN  /\ ret' = [op |-> "Read", h |-> h, n |-> r.n, data |-> r.data,
                      err |-> r.err]
           /\ fileHeaders' = setReader(fileHeaders, handles[h], r.sr)
           /\ cursor' = r.cursor
    /\ UNCHANGED <<stream, kind, pc, srcClosed, err, hdrpos, last, scanned,
                   handles, closedAt>>

\* fileHeader.ReadAt
ReadAt(h, n, off) ==
    /\ pc = "ready"
    /\ h \in DOMAIN handles
    /\ LET r == srReadAt(fileHeaders[handles[h]].sectionReader, kind, cursor,
                         srcClosed, n, off)
       IN  /\ ret' = [op |-> "ReadAt", h |-> h, n |-> r.n, data |-> r.data,
                      err |-> r.err, off |-> off]
           /\ cursor' = r.cursor
    /\ UNCHANGED <<stream, kind, pc, srcClosed, err, fileHeaders, hdrpos, last,
                   scanned, handles, closedAt>>

\* fileHeader.Seek; the model stops at the end of the window
Seek(h, offset, whence) ==
    /\ pc = "ready"
    /\ h \in DOMAIN handles
    /\ LET sr == fileHeaders[handles[h]].sectionReader
           r == srSeek(sr, offset, whence)
       IN  /\ r.sr.off <= Max(sr.limit, sr.base)
           /\ ret' = [op |-> "Seek", h |-> h, pos |-> r.pos, err |-> r.err]
           /\ fileHeaders' = setReader(fileHeaders, handles[h], r.sr)
    /\ UNCHANGED <<stream, kind, pc, cursor, srcClosed, err, hdrpos, last,
                   scanned, handles, closedAt>>

\* fileHeader.Close
FileClose(h) ==
    /\ pc = "ready"
    /\ h \in DOMAIN handles
    /\ ret' = [op |-> "FileClose", h |-> h, err |-> nil]
    /\ UNCHANGED <<stream, kind, pc, cursor, srcClosed, err, fileHeaders,
                   hdrpos, last, scanned, handles, closedAt>>

Next ==
    \/ FromFile
    \/ FromInterface
    \/ ParseHeader
    \/ \E name \in Requests : Open(name)
    \/ \E name \in Requests : Stat(name)
    \/ \E name \in Requests : ReadFile(name)
    \/ \E name \in DirRequests : ReadDir(name)
    \/ \E pattern \in Patterns : Glob(pattern)
    \/ Close
    \/ \E h \in 1..MaxHandles, n \in 1..MaxRead : Read(h, n)
    \/ \E h \in 1..MaxHandles, n \in 1..MaxRead, off \in 0..(MaxRead - 1) :
          ReadAt(h, n, off)
    \/ \E h \in 1..MaxHandles, a \in SeekArgs : Seek(h, a[1], a[2])
    \/ \E h \in 1..MaxHandles : FileClose(h)

Spec == Init /\ [][Next]_vars


\* construction and the listing alone
ParseNext ==
    \/ FromFile
    \/ FromInterface
    \/ ParseHeader
    \/ \E name \in DirRequests : ReadDir(name)

ParseSpec == Init /\ [][ParseNext]_vars

-----------------------------------------------------------------------------
(* What the claims speak of *)

\* the bytes of the stream in [from, to)
Bytes(from, to) == SubSeq(stream, from + 1, Min(to, Len(stream)))

\* the position of the h-th handle within its member
Pos(h) ==
    LET sr == fileHeaders[handles[h]].sectionReader IN sr.off - sr.base

\* the member data an entry stands for: size bytes from its data start
contentOf(e) ==
    Bytes(e.sectionReader.base, e.sectionReader.limit)

\* the spellings of a stored name x: "x", "/x" and "./x"
Spellings(x) == { x, <<Slash>> \o x, <<Dot, Slash>> \o x }

\* the 60 bytes at a stream offset (fewer when the stream ends)
headerAt(pos) == Bytes(pos, pos + headerSize)

\* a field holds a number in a base: an optional sign, then digits of the base
IsNumeral(field, base) ==
    LET t == TrimSpace(field)
        digits == IF t # <<>> /\ Head(t) \in {43, 45} THEN Tail(t) ELSE t
    IN  /\ digits # <<>>
        /\ \A i \in 1..Len(digits) :
              digits[i] >= 48 /\ digits[i] < 48 + base

\* a header whose terminator or one of whose numeric fields is malformed
BadHeader(h) ==
    \/ SubSeq(h, 59, 60) # <<96, 10>>
    \/ ~IsNumeral(SubSeq(h, 17, 28), 10)
    \/ ~IsNumeral(SubSeq(h, 29, 34), 10)
    \/ ~IsNumeral(SubSeq(h, 35, 40), 10)
    \/ ~IsNumeral(SubSeq(h, 41, 48), 8)
    \/ ~IsNumeral(SubSeq(h, 49, 58), 10)

\* the value of a numeral without a sign, of at most two digits
RECURSIVE NumeralVal(_, _)
NumeralVal(t, acc) ==
    IF t = <<>> THEN acc ELSE NumeralVal(Tail(t), acc * 10 + (Head(t) - 48))

\* the offsets at which the container layout places member headers: the
\* first after the signature, the next after the data and its padding
RECURSIVE LayoutHeaders(_)
LayoutHeaders(pos) ==
    IF pos + headerSize > Len(stream) THEN {}
    ELSE LET h == headerAt(pos)
             sz == TrimSpace(SubSeq(h, 49, 58))
         IN  IF BadHeader(h) \/ Head(sz) \in {43, 45} \/ Len(sz) > 2 THEN {pos}
             ELSE LET n == NumeralVal(sz, 0)
                  IN  {pos} \cup LayoutHeaders(pos + headerSize + n + (n % 2))

constructed == pc = "ready"
constructionEnded == pc \in {"ready", "failed", "panic"}


-----------------------------------------------------------------------------
(* The claims *)

\* C1: for every member name in the table, in every state that open, handle
\* read/seek, stat and read_file calls lead to, read_file(name) returns
\* exactly the member's content bytes, as many as stat(name).size says.
\* Stated for the names getHeader's normalisation leaves as they are (the
\* others are the subject of C8), so what fails here is the read itself.
C1_ReadFileExact ==
    (/\ ret.op = "ReadFile"
     /\ ret.arg \in DOMAIN fileHeaders
     /\ normalize(ret.arg) = ret.arg)
    => LET e == fileHeaders[ret.arg]
       IN  /\ ret.err = nil
           /\ ret.data = contentOf(e)
           /\ Uint32(Len(ret.data)) = e.size

\* C2: handles of separate Open calls are independently positioned: a newly
\* opened handle is at position 0, and a Read, ReadAt, Seek or Close on one
\* handle leaves the position of every other handle where it was.
C2_HandlesIndependent ==
    [][ /\ (ret'.op = "Open" /\ ret'.err = nil /\ handles' # handles)
           => LET sr == fileHeaders'[handles'[ret'.h]].sectionReader
              IN  sr.off = sr.base
        /\ (ret'.op \in {"Read", "ReadAt", "Seek", "FileClose"})
           => \A g \in DOMAIN handles :
                 g # ret'.h =>
                    fileHeaders'[handles[g]].sectionReader
                       = fileHeaders[handles[g]].sectionReader
      ]_vars

\* C3: for a member whose header name is "#1/N" with declared size S >= N,
\* construction stores the entry under the first N bytes of the member's
\* data with the trailing NULs stripped, and not under the placeholder;
\* stat on that name reports size S - N; and a handle opened on it gives
\* exactly the stream bytes [d + N, d + S), d being the offset after the
\* header.  Looked at in the state parse is in after the header at hdrpos.
C3_ExtendedName ==
    LET h == headerAt(hdrpos)
        fn == TrimSpace(SubSeq(h, 1, 16))
        N == ParseInt(TrimPrefix(fn, extendedPrefix), 10)
        S == ParseInt(TrimSpace(SubSeq(h, 49, 58)), 10)
        d == hdrpos + headerSize
        nm == TrimRight(Bytes(d, d + N.val), nulCutset)
    IN  (/\ hdrpos >= 0
         /\ Len(h) = headerSize
         /\ ~BadHeader(h)
         /\ HasPrefix(fn, extendedPrefix)
         /\ N.err = nil /\ N.val >= 0
         /\ S.val >= N.val
         /\ d + S.val <= Len(stream))
        => /\ pc \in {"scan", "ready"}
           /\ nm \in DOMAIN fileHeaders
           /\ fn \notin DOMAIN fileHeaders
           /\ getHeader(fileHeaders, nm).ok
           /\ fileHeaders[getHeader(fileHeaders, nm).key].size
                 = Uint32(S.val - N.val)
           /\ readAll(fileHeaders[nm].sectionReader, kind, cursor, srcClosed,
                      <<>>).data
                 = Bytes(d + N.val, d + S.val)

\* C4: after a header whose data starts at offset d with declared size S,
\* parse reads the next header at d + S + (S mod 2), for an extended name
\* too, and for a source with ReadAt as for one with Seek and Read only.
C4_NextHeaderOffset ==
    (pc = "scan" /\ scanned # <<>>)
    => cursor = last.offset + last.declared + (last.declared % 2)

\* C5: construction fails with TooShort whenever the stream holds fewer than
\* 8 bytes, the empty stream included, or ends 1 to 59 bytes into a member
\* header; a stream that ends where a header would start is constructed.
C5_TooShort ==
    /\ (pc # "new" /\ Len(stream) < Len(goodSignature))
       => (pc = "failed" /\ err = ErrTooShort)
    /\ (pc # "scan" /\ hdrpos >= 0
          /\ Len(stream) - hdrpos \in 1..(headerSize - 1))
       => (pc = "failed" /\ err = ErrTooShort)
    /\ (pc # "scan" /\ hdrpos >= 0 /\ Len(stream) = hdrpos)
       => pc = "ready"


\* C6 as stated: if any member header in the stream has a terminator other
\* than 0x60 0x0A, or a numeric field that does not parse in its base,
\* construction fails with an error that is BadFileHeader.
C6_AnyBadHeader ==
    (/\ constructionEnded
     /\ \E p \in LayoutHeaders(Len(goodSignature)) : BadHeader(headerAt(p)))
    => (pc = "failed" /\ errorsIs(err, ErrBadFileHeader))

\* C6 as amended: if the header parse has read (60 bytes at hdrpos) has a
\* wrong terminator or a numeric field that does not parse in its base,
\* construction has failed with an error that is BadFileHeader, and there is
\* no archive: nothing was, or can be, asked of it.
C6_BadHeaderRead ==
    (/\ hdrpos >= 0
     /\ Len(headerAt(hdrpos)) = headerSize
     /\ BadHeader(headerAt(hdrpos)))
    => (/\ pc = "failed"
        /\ errorsIs(err, ErrBadFileHeader)
        /\ ret = NoRet
        /\ ~ENABLED (\E name \in DirRequests : ReadDir(name)))

\* a bad header read after a member was scanned and inserted
C6_Witness ==
    /\ pc = "failed"
    /\ scanned # <<>>
    /\ Len(headerAt(hdrpos)) = headerSize
    /\ BadHeader(headerAt(hdrpos))
    /\ errorsIs(err, ErrBadFileHeader)

rootDirs == { <<Slash>>, <<Dot>> }
scannedNames == { scanned[i] : i \in DOMAIN scanned }

\* C7 as stated: ReadDir on the root returns one record per member header,
\* so as many records as headers were scanned.
C7_CountEqualsHeaders ==
    (ret.op = "ReadDir" /\ ret.arg \in rootDirs)
    => (ret.err = nil /\ Len(ret.entries) = Len(scanned))

\* C7 as amended: ReadDir on the root returns one record per distinct
\* resolved name among the headers scanned, each name once.
C7_CountEqualsNames ==
    (ret.op = "ReadDir" /\ ret.arg \in rootDirs)
    => (/\ ret.err = nil
        /\ Len(ret.entries) = Cardinality(scannedNames)
        /\ { ret.entries[i].name : i \in DOMAIN ret.entries } = scannedNames)

\* two headers of one name, listed as one record
C7_Witness ==
    /\ ret.op = "ReadDir" /\ ret.arg \in rootDirs
    /\ Len(scanned) = 2
    /\ Len(ret.entries) = 1

\* C8: Open, Stat and ReadFile normalise the name, so for every name x of the
\* table the requests "x", "/x" and "./x" find the entry stored under x, and
\* the metadata carries the stored name x.
C8_Normalized ==
    ret.op \in {"Open", "Stat", "ReadFile"}
    => \A x \in DOMAIN fileHeaders :
          ret.arg \in Spellings(x)
          => /\ ret.err # ErrNotExist
             /\ ret.op = "Stat" => ret.info.name = x
             /\ ret.op = "Open" => handles[ret.h] = x

\* C9: Glob fails with the pattern-syntax error whenever the pattern is
\* malformed, whatever the table holds; for a well-formed pattern it returns
\* exactly the names of the table that match, each once.
C9_Glob ==
    ret.op = "Glob"
    => IF Match(ret.arg, <<>>).err # nil
       THEN ret.err = ErrBadPattern
       ELSE LET matching == { x \in DOMAIN fileHeaders :
                                 Match(ret.arg, x).matched }
            IN  /\ ret.err = nil
                /\ { ret.names[i] : i \in DOMAIN ret.names } = matching
                /\ Len(ret.names) = Cardinality(matching)

\* C10: after Close on the archive, every Read or ReadAt on a handle opened
\* before the Close returns an error and no member data.
C10_GuardedAfterClose ==
    (/\ closedAt >= 0
     /\ ret.op \in {"Read", "ReadAt"}
     /\ ret.h <= closedAt)
    => (ret.err # nil /\ ret.n = 0)


\* C11: construction is one forward scan that ends: every header processed
\* leaves the scan position beyond the position that header was read at,
\* and construction never ends other than with an archive or with an error
\* returned (no header makes it panic).
C11_ForwardScan ==
    /\ (pc = "scan" /\ hdrpos >= 0) => cursor > hdrpos
    /\ pc # "panic"


\* C12: every name of the table (the names ReadDir on the root and Glob
\* return) can be looked up with that exact name: on the open archive Open,
\* Stat and ReadFile do not fail, Stat reports that name and Open gives the
\* handle of its entry.
C12_ListedNamesFound ==
    (/\ closedAt = -1
     /\ ret.op \in {"Open", "Stat", "ReadFile"}
     /\ ret.arg \in DOMAIN fileHeaders)
    => (/\ ret.err = nil
        /\ ret.op = "Stat" => ret.info.name = ret.arg
        /\ ret.op = "Open" => handles[ret.h] = ret.arg)

=============================================================================
